---- MODULE Spec2Model ----
(***************************************************************************)
(* RAVCHECK (ravenastar-js/ravcheck): the batch analysis workflow of       *)
(* lib/index.js.  One logical thread of control runs analyzeFromFile,      *)
(* which for every URL calls submitAndWaitForAnalysis, which calls         *)
(* submitToUrlScan (POST) and waitForResult (polling GETs).  The urlscan   *)
(* API is the environment: every response (status, rate-limit headers,     *)
(* body) is a nondeterministic input.                                      *)
(*                                                                         *)
(* Time is in milliseconds and is kept relative to the present: a          *)
(* timestamp t held by the program is stored as t - Date.now(), a past     *)
(* event as the time elapsed since it.  Time passes only in delay(ms),     *)
(* which shifts every stored difference by ms.  The program compares       *)
(* rateLimitInfo.reset with Date.now() only, so all reset times that are   *)
(* not in the future are one value (0).                                    *)
(***************************************************************************)
EXTENDS Integers, Sequences, FiniteSets, TLC

(* ------------------------------ bounds -------------------------------- *)
\* longest links.txt list analysed
MaxUrls == 2
\* largest configured value of config.maxPollingAttempts
MaxAttempts == 2
\* the API answers at most this many POSTs of one submit call with a
\* response that makes submitToUrlScan call itself again
MaxPosts == 3
\* X-Rate-Limit-Reset values lie this many seconds after the response
ResetAheadSec == 60
\* largest X-Rate-Limit-Remaining value the API sends
HeaderRemainingMax == 1

\* largest number of custom tags given to one submission
MaxTags == 3
\* largest used and limit values of a quota window given to calculateUsage
MaxUsed == 10
MaxLimit == 8

(* ------------------------- program constants -------------------------- *)
PollingInterval == 10000
MinDelayBetweenRequests == 5000
SubmitCooldown == 60000
PollCooldown == 60000
RateLimitBuffer == 1000
RateLimitWindow == 60000
InitialRemaining == 1
\* headers.get(name) of a header the response does not carry (null)
NoHeader == -1
\* status used for a fetch() that rejects (no HTTP response at all)
NetFail == 0

Visibilities == {"public", "unlisted", "private"}
Uuids == {"id1", "id2"}
PostStatuses == {200, 400, 401, 402, 422, 429, 500}
GetStatuses == {200, 404, 410, 429, 500}
QuotaStatuses == {200, 401}

VARIABLES
    pc,             \* position of the single thread of control
    elapsed,        \* stopwatch: time since the last POST, GET or job end
    apiKey,         \* what authManager.getApiKey() returns ("" for null)
    config,         \* this.config: maxPollingAttempts, defaultVisibility
    urls,           \* loadUrls(): the list of links.txt, as list positions
    rateLimitInfo,  \* this.rateLimitInfo: remaining, reset - Date.now()
    i,              \* loop index of analyzeFromFile (0-based)
    sucessos, falhas, resultados,   \* locals of analyzeFromFile
    processed,      \* history: the URLs whose job has returned and how it
                    \* ended, in order
    delays,         \* history: inter-request delays taken
    resultado,      \* record returned by the last submitAndWaitForAnalysis
    uuid,           \* submissionResult.uuid of the current job
    attempt,        \* loop index of waitForResult
    posts, gets,    \* history: POSTs / result GETs issued for this job
    payload,        \* history: body of the last POST
    lastReq,        \* history: the last HTTP request of this job, its
                    \* response (status, rate-limit headers, body), the
                    \* error its handler threw, the time since the
                    \* request before it and the status of that one
    rateCheck,      \* history: what the waitForRateLimit before the
                    \* coming POST read and how long it suspended
    prior404,       \* history: every GET before the last was answered 404
    startGap,       \* history: time from the end of the job before to the
                    \* start of this one
    saved,          \* metadata written by saveResults
    files,          \* the files the menu handlers read and write: key.json,
                    \* options/scan-visibility.txt, the other option
                    \* files and the categories of logs/ that hold a file
                    \* (the log files are followed in MenuSpec only)
    lastSaved,      \* history: the key of the last saveApiKey that
                    \* returned true
    ret             \* history: the last call of a menu handler or of a
                    \* function, with its arguments and what it returned

vars == <<pc, elapsed, apiKey, config, urls, rateLimitInfo, i, sucessos, falhas,
          resultados, processed, delays, resultado, uuid, attempt, posts,
          gets, payload, lastReq, rateCheck, prior404, startGap,
          saved, files, lastSaved, ret>>

\* what the batch workflow leaves alone
toolVars == <<files, lastSaved, ret>>
\* what the menu handlers outside the batch workflow leave alone
runVars == <<elapsed, apiKey, config, urls, rateLimitInfo, i, sucessos, falhas,
             resultados, processed, delays, resultado, uuid, attempt, posts,
             gets, payload, lastReq, rateCheck, prior404, startGap, saved>>

batchVars == <<i, sucessos, falhas, processed, resultado, saved>>
pollVars == <<attempt, gets, prior404>>
postVars == <<posts, payload>>
envVars == <<apiKey, config, urls, resultados>>

NoResultado == [sucesso |-> FALSE, uuid |-> "", urlRelatorio |-> <<>>,
                erro |-> "none", data |-> "none"]
NoPayload == [url |-> 0, visibility |-> "none"]
NoReq == [kind |-> "none", status |-> -1, hRemaining |-> NoHeader,
          hReset |-> NoHeader, body |-> "none", thrown |-> "none",
          gap |-> 0, prev |-> -1]
NoCheck == [checked |-> FALSE, remaining |-> 0, reset |-> 0, waited |-> 0]
NoSaved == [totalResults |-> -1, successfulResults |-> -1, failedResults |-> -1]

\* the stopwatch stops counting here; no formula compares it with more
ElapsedCap == SubmitCooldown + PollCooldown + PollingInterval

(* ------------------------------ helpers ------------------------------- *)

\* delay(ms): the time the returned promise takes to resolve
Delay(ms) == IF ms > 0 THEN ms ELSE 0

\* a difference t - Date.now(), with every time that is not in the future
\* taken as the present
NotPast(d) == IF d < 0 THEN 0 ELSE d

\* rateLimitInfo as it is seen ms later
Later(info, ms) == [info EXCEPT !.reset = NotPast(@ - ms)]

\* the stopwatch ms later
Stopwatch(e, ms) == IF e + ms > ElapsedCap THEN ElapsedCap ELSE e + ms

\* UpdateRateLimitFromHeaders with the remaining header tested as a number
\* (0 falsy) instead of as a string
UpdateTreatsZeroAsAbsent(info, hRemaining, hReset) ==
    [remaining |-> IF hRemaining # NoHeader /\ hRemaining # 0 THEN hRemaining
                   ELSE info.remaining,
     reset     |-> IF hReset # NoHeader THEN hReset * 1000 ELSE info.reset]

\* updateRateLimitFromHeaders: a header string is truthy when present;
\* hReset is the header's value in seconds, relative to the present
UpdateRateLimitFromHeaders(info, hRemaining, hReset) ==
    [remaining |-> IF hRemaining # NoHeader THEN hRemaining ELSE info.remaining,
     reset     |-> IF hReset # NoHeader THEN hReset * 1000 ELSE info.reset]

\* MustWaitForRateLimit without the test of remaining
MustWaitIgnoresRemaining(info) == info.reset > 0

\* the condition under which waitForRateLimit suspends:
\* remaining <= 0 && reset > now
MustWaitForRateLimit(info) == info.remaining <= 0 /\ info.reset > 0

\* the message of the error thrown for a non-OK POST contains 'Rate limit':
\* the 429 message itself, or the response text quoted by the messages for
\* 400 and for the statuses without a branch of their own
MessageHasRateLimit(status, textRL) ==
    \/ status = 429
    \/ status \notin {401, 402, 429} /\ textRL

\* AfterPostResponse with the headers read on the OK path only
AfterPostResponseOkOnly(info, status, hRemaining, hReset) ==
    IF status # 200 THEN info
    ELSE UpdateRateLimitFromHeaders(info, hRemaining, hReset)

\* this.rateLimitInfo after the fetch of submitToUrlScan has settled:
\* updateRateLimitFromHeaders(response.headers) runs for every response,
\* before the test of response.ok; a fetch that rejects has no response
AfterPostResponse(info, status, hRemaining, hReset) ==
    IF status = NetFail THEN info
    ELSE UpdateRateLimitFromHeaders(info, hRemaining, hReset)

\* SubmitErrorKind without the branch for 402
SubmitErrorKindNoQuota(status) ==
    CASE status = 401 -> "Auth"
      [] status = 400 -> "Validation"
      [] status = 429 -> "RateLimit"
      [] status = NetFail -> "Network"
      [] OTHER -> "Http"

\* the error thrown by submitToUrlScan for a non-OK response
SubmitErrorKind(status) ==
    CASE status = 401 -> "Auth"
      [] status = 400 -> "Validation"
      [] status = 429 -> "RateLimit"
      [] status = 402 -> "Quota"
      [] status = NetFail -> "Network"
      [] OTHER -> "Http"

\* what the try block of submitToUrlScan throws, "none" when it returns
\* the parsed body (response.json() rejects on a body that is not JSON)
SubmitThrows(status, body) ==
    IF status = 200 THEN (IF body = "bad" THEN "BadJson" ELSE "none")
    ELSE SubmitErrorKind(status)

\* the visibility parameter submitAndWaitForAnalysis receives from
\* analyzeFromFile, which passes (url, tags) only: the parameter default
BatchVisibilityArg == "public"

\* scanVisibility = visibility || optionsManager.getScanVisibility()
ScanVisibility(visibility, configured) ==
    IF visibility # "" THEN visibility ELSE configured

\* PollBranch with the 429 branch falling through to the next attempt
\* without the cooldown
PollBranchNoCooldown(status, body) ==
    CASE status = NetFail -> "throw"
      [] status = 200 -> IF body = "bad" THEN "throw" ELSE "return"
      [] status = 404 -> "next"
      [] status = 410 -> "throw"
      [] status = 429 -> "next"
      [] OTHER -> "throw"

\* PollBranch with a 200 treated like a 404
PollBranchMisses200(status, body) ==
    CASE status = NetFail -> "throw"
      [] status = 200 -> "next"
      [] status = 404 -> "next"
      [] status = 410 -> "throw"
      [] status = 429 -> "cooldown"
      [] OTHER -> "throw"

\* what one iteration of the polling loop does with the response:
\* "return" the body, go on to the "next" attempt, "throw" into the catch
\* block, or take the rate-limit "cooldown"
PollBranch(status, body) ==
    CASE status = NetFail -> "throw"
      [] status = 200 -> IF body = "bad" THEN "throw" ELSE "return"
      [] status = 404 -> "next"
      [] status = 410 -> "throw"
      [] status = 429 -> "cooldown"
      [] OTHER -> "throw"

\* what the try block of one polling iteration throws, "none" when it
\* does not throw
PollThrows(status, body) ==
    CASE status = NetFail -> "Network"
      [] status = 200 -> IF body = "bad" THEN "BadJson" ELSE "none"
      [] status = 404 -> "none"
      [] status = 410 -> "Expired"
      [] status = 429 -> "none"
      [] OTHER -> "Http"

\* CatchRethrows with every error ending the polling
CatchAlwaysRethrows(att, maxAtt) == att <= maxAtt

\* the catch block of the polling loop rethrows on the last attempt only
CatchRethrows(att, maxAtt) == att = maxAtt

\* the for loop of waitForResult: attempt++ runs after the body, also
\* after `continue`
NextAttempt(att) == att + 1

\* NeedsDelay with the delay taken after the last URL too
NeedsDelayAfterLast(idx, n) == idx < n

\* the inter-request delay is taken unless this was the last URL
NeedsDelay(idx, n) == idx < n - 1

\* the loop test of analyzeFromFile
MoreUrls(idx, n) == idx < n

\* MoreAttempts with one attempt too many
MoreAttemptsOffByOne(att, maxAtt) == att <= maxAtt + 1

\* the loop test of waitForResult
MoreAttempts(att, maxAtt) == att <= maxAtt

\* showCurrentRateLimitStatus is shown for the first and every fifth URL
ShowsStatus(idx) == (idx + 1) % 5 = 0 \/ idx = 0

\* resultado && resultado.sucesso
IsSucesso(r) == r.sucesso

\* urlRelatorio: `https://urlscan.io/result/${uuid}/`
ReportUrl(id) == <<"https://urlscan.io/result/", id, "/">>

\* Success with the uuid of another job
SuccessOtherId(id, data) ==
    [sucesso |-> TRUE, uuid |-> "id1", urlRelatorio |-> ReportUrl("id1"),
     erro |-> "none", data |-> data]

\* Failure with a fixed text in place of error.message
FailureGenericMessage(kind) ==
    [sucesso |-> FALSE, uuid |-> "", urlRelatorio |-> <<>>,
     erro |-> "Error", data |-> "none"]

\* the records submitAndWaitForAnalysis returns
Success(id, data) ==
    [sucesso |-> TRUE, uuid |-> id, urlRelatorio |-> ReportUrl(id),
     erro |-> "none", data |-> data]
Failure(kind) ==
    [sucesso |-> FALSE, uuid |-> "", urlRelatorio |-> <<>>,
     erro |-> kind, data |-> "none"]

(* ----------------------- credential and options ----------------------- *)

\* an API key as isValidApiKey sees it: the lengths of its groups of
\* characters between hyphens, and whether all of them are hex digits
UuidGroups == <<8, 4, 4, 4, 12>>
KeyA == [id |-> "A", groups |-> UuidGroups, hex |-> TRUE]
KeyB == [id |-> "B", groups |-> UuidGroups, hex |-> TRUE]
KeyShort == [id |-> "C", groups |-> <<8, 4, 4, 4, 11>>, hex |-> TRUE]
KeyNotHex == [id |-> "D", groups |-> UuidGroups, hex |-> FALSE]
KeyEmpty == [id |-> "", groups |-> <<>>, hex |-> TRUE]
\* the null getApiKey returns
NullKey == [id |-> "null", groups |-> <<>>, hex |-> FALSE]
KeyInputs == {KeyA, KeyB, KeyShort, KeyNotHex, KeyEmpty}

\* IsValidApiKey with the hex test only
IsValidApiKeyAnyLength(k) == k.id # "" /\ k.hex

\* isValidApiKey: a non-empty string that matches the UUID pattern
IsValidApiKey(k) == k.id # "" /\ k.groups = UuidGroups /\ k.hex

\* this.encryptionKey, derived from the machine and the user, and the one
\* of another machine or user
EncryptionKey == "here"
OtherEncryptionKey == "elsewhere"

\* CryptoJS.AES.encrypt / decrypt: decrypting with another key than the
\* one used to encrypt gives no UUID (an empty or garbled string)
Encrypt(k, encKey) == [plain |-> k, with |-> encKey]
Decrypt(cipher, encKey) == IF cipher.with = encKey THEN cipher.plain ELSE KeyEmpty

\* key.json: absent, or the JSON saveApiKey writes
NoKeyFile == [exists |-> FALSE, version |-> "", key |-> Encrypt(KeyEmpty, "")]
KeyFile(k, encKey, version) ==
    [exists |-> TRUE, version |-> version, key |-> Encrypt(k, encKey)]

\* getApiKey: null when the file is absent, of another version, or does
\* not decrypt to a valid key
GetApiKey(keyFile) ==
    IF ~keyFile.exists THEN NullKey
    ELSE IF keyFile.version # "1.0" THEN NullKey
    ELSE IF ~IsValidApiKey(Decrypt(keyFile.key, EncryptionKey)) THEN NullKey
    ELSE Decrypt(keyFile.key, EncryptionKey)

\* lines of a text file of options/: a value, a blank line, a comment
IsBlank(line) == line = ""
IsComment(line) == line \in {"#note"}

\* String.prototype.toLowerCase on the lines used here
ToLowerCase(line) ==
    CASE line = "PRIVATE" -> "private"
      [] line = "Unlisted" -> "unlisted"
      [] OTHER -> line

\* loadFile: the lines that are neither blank nor comments, in order
LoadFile(lines) == SelectSeq(lines, LAMBDA l : ~IsBlank(l) /\ ~IsComment(l))

\* GetScanVisibility without the test of the value read
GetScanVisibilityUnchecked(lines) ==
    IF Len(LoadFile(lines)) = 0 THEN "public"
    ELSE ToLowerCase(LoadFile(lines)[1])

\* getScanVisibility: lines[0]?.toLowerCase() || 'public', and 'public'
\* again when that is none of the three values
GetScanVisibility(lines) ==
    LET visibility == IF Len(LoadFile(lines)) = 0 THEN "public"
                      ELSE ToLowerCase(LoadFile(lines)[1])
    IN IF visibility \in Visibilities THEN visibility ELSE "public"

\* the option files no handler modelled here writes
OptionFiles == [links |-> "links.txt", tags |-> "tags.txt", userAgent |-> "user-agent.txt"]

\* the files behind the inputs of a batch: key.json holds a key when
\* getApiKey returns one, scan-visibility.txt holds the value init() read
FilesFor(key, visibility) ==
    [key |-> IF key = "" THEN NoKeyFile ELSE KeyFile(KeyA, EncryptionKey, "1.0"),
     visibility |-> <<visibility>>,
     options |-> OptionFiles,
     logs |-> {}]

NoCall == [op |-> "none"]

\* key.json as a session can find it: absent, written by this machine and
\* user, written under another encryption key, or of another version
InitKeyFiles ==
    {NoKeyFile, KeyFile(KeyA, EncryptionKey, "1.0"),
     KeyFile(KeyA, OtherEncryptionKey, "1.0"), KeyFile(KeyA, EncryptionKey, "0.9")}

\* scan-visibility.txt as a session can find it (the user edits it)
InitVisibilityFiles ==
    {<<>>, <<"public">>, <<"#note", "unlisted">>, <<"", "private">>,
     <<"PRIVATE">>, <<"friends">>}

\* arguments of setScanVisibility
VisibilityInputs == Visibilities \cup {"PRIVATE", "friends", ""}

(* ------------------------------- tags --------------------------------- *)
Tags == {"a", "b"}

\* all sequences over S of length at most n
RECURSIVE SeqsUpTo(_, _)
SeqsUpTo(S, n) ==
    IF n = 0 THEN {<<>>}
    ELSE LET shorter == SeqsUpTo(S, n - 1)
         IN shorter \cup {Append(q, x) : q \in shorter, x \in S}

\* config/fixedtags.txt as it can be found
FixedTagFiles == {<<>>, <<"a">>, <<"#note", "b", "", "b">>}

\* Dedupe that drops a tag only when it repeats the tag right before it
RECURSIVE DedupeAdjacent(_)
DedupeAdjacent(tags) ==
    IF Len(tags) <= 1 THEN tags
    ELSE LET front == DedupeAdjacent(SubSeq(tags, 1, Len(tags) - 1))
             last  == tags[Len(tags)]
         IN IF front[Len(front)] = last THEN front ELSE Append(front, last)

\* [...new Set(tags)]: the first occurrence of every tag, in order
RECURSIVE Dedupe(_)
Dedupe(tags) ==
    IF tags = <<>> THEN <<>>
    ELSE LET front == Dedupe(SubSeq(tags, 1, Len(tags) - 1))
             last  == tags[Len(tags)]
         IN IF \E k \in 1..Len(front) : front[k] = last THEN front
            ELSE Append(front, last)

\* combineTags(customTags): the fixed tags, then the custom tags that are
\* not blank, without duplicates
CombineTags(fixedLines, customTags) ==
    Dedupe(LoadFile(fixedLines) \o SelectSeq(customTags, LAMBDA t : ~IsBlank(t)))

\* loadTags(): the fixed tags, then the tags of options/tags.txt, without
\* duplicates
LoadTags(fixedLines, tagLines) ==
    Dedupe(LoadFile(fixedLines) \o LoadFile(tagLines))

\* payload.tags of submitToUrlScan: the tags parameter as it is, handed on
\* unchanged by submitAndWaitForAnalysis
PayloadTags(tags) == tags

(* ------------------------------- quota -------------------------------- *)

\* Math.round(n / d * 100) for n >= 0, d > 0 (a tie rounds up)
RoundPercent(n, d) == (200 * n + d) \div (2 * d)

\* CalculateUsage without the clamp of remaining
CalculateUsageNoClamp(used, limit) ==
    IF limit = 0
      THEN [used |-> 0, limit |-> 0, remaining |-> 0, percentage |-> 0,
            status |-> "disabled"]
      ELSE LET percentage == RoundPercent(used, limit) IN
           [used |-> used, limit |-> limit,
            remaining |-> limit - used,
            percentage |-> percentage,
            status |-> IF percentage >= 80 THEN "critical"
                       ELSE IF percentage >= 50 THEN "warning" ELSE "low"]

\* calculateUsage(used, limit)
CalculateUsage(used, limit) ==
    IF limit = 0
      THEN [used |-> 0, limit |-> 0, remaining |-> 0, percentage |-> 0,
            status |-> "disabled"]
      ELSE LET percentage == RoundPercent(used, limit) IN
           [used |-> used, limit |-> limit,
            remaining |-> IF limit - used > 0 THEN limit - used ELSE 0,
            percentage |-> percentage,
            status |-> IF percentage >= 80 THEN "critical"
                       ELSE IF percentage >= 50 THEN "warning" ELSE "low"]

\* QuotaThrows with a non-OK response read like an OK one
QuotaThrowsIgnoresStatus(hasKey, status, body) ==
    IF ~hasKey THEN "NoKey"
    ELSE IF status = NetFail THEN "Network"
    ELSE IF body \in {"bad", "null"} THEN "BadJson"
    ELSE "none"

\* what the try block of checkRateLimit throws, "none" when it returns:
\* no key, a fetch that rejects, a non-OK status, a body that is not JSON
\* or is null; a body without `limits` is parsed into the default quota
\* data and returned
QuotaThrows(hasKey, status, body) ==
    IF ~hasKey THEN "NoKey"
    ELSE IF status = NetFail THEN "Network"
    ELSE IF status # 200 THEN "Http"
    ELSE IF body \in {"bad", "null"} THEN "BadJson"
    ELSE "none"

\* the object checkRateLimit returns: the parsed quotas with
\* isDefault false, or from the catch block getDefaultFreeLimits() with
\* isDefault true
CheckRateLimit(hasKey, status, body) ==
    IF QuotaThrows(hasKey, status, body) = "none"
      THEN [team |-> "plan", isDefault |-> FALSE]
      ELSE [team |-> "Free Plan (Default)", isDefault |-> TRUE]

(* ------------------------------- Init --------------------------------- *)
Init ==
    /\ pc = "menu"
    /\ elapsed = 0
    /\ apiKey \in {"", "key"}
    /\ config \in [maxPollingAttempts : 1..MaxAttempts, defaultVisibility : Visibilities]
    /\ urls \in {[k \in 1..n |-> k] : n \in 0..MaxUrls}
    /\ rateLimitInfo = [remaining |-> InitialRemaining, reset |-> RateLimitWindow]
    /\ i = 0
    /\ sucessos = 0 /\ falhas = 0 /\ resultados = <<>>
    /\ processed = <<>> /\ delays = 0
    /\ resultado = NoResultado
    /\ uuid = "" /\ attempt = 0 /\ posts = 0 /\ gets = 0
    /\ payload = NoPayload /\ lastReq = NoReq /\ prior404 = TRUE
    /\ rateCheck = NoCheck
    /\ startGap = 0
    /\ saved = NoSaved
    /\ files = FilesFor(apiKey, config.defaultVisibility)
    /\ lastSaved = IF apiKey = "" THEN NullKey ELSE KeyA
    /\ ret = NoCall

(* ------------------------------ actions ------------------------------- *)

\* time passes in a delay(ms)
Pass(ms) ==
    /\ elapsed' = Stopwatch(elapsed, ms)
    /\ rateLimitInfo' = Later(rateLimitInfo, ms)

\* analyzeFromFile up to the loop: an empty list or a declined prompt
\* returns the empty result at once
AnalyzeFromFile ==
    /\ pc = "menu"
    /\ \E confirm \in BOOLEAN :
         pc' = IF Len(urls) = 0 \/ ~confirm THEN "done"
               ELSE IF ShowsStatus(0) THEN "status" ELSE "job"
    /\ UNCHANGED <<elapsed, rateLimitInfo, delays, uuid, startGap, lastReq, rateCheck>>
    /\ UNCHANGED <<batchVars, pollVars, postVars, envVars, toolVars>>

\* showCurrentRateLimitStatus: checkRateLimit and the printing of what it
\* returns.  Without a key checkRateLimit throws before the fetch; with one
\* it GETs the quotas and copies the rate-limit headers of the response
\* into the object it returns.  this.rateLimitInfo is not written.
ShowCurrentRateLimitStatus ==
    /\ pc = "status"
    /\ IF apiKey = ""
         THEN lastReq' = NoReq
         ELSE \E status \in QuotaStatuses \cup {NetFail},
                 hRemaining \in {NoHeader, 0, HeaderRemainingMax},
                 hReset \in {NoHeader, ResetAheadSec} :
                /\ status = NetFail => hRemaining = NoHeader /\ hReset = NoHeader
                /\ lastReq' = [kind |-> "QUOTA", status |-> status,
                                hRemaining |-> hRemaining, hReset |-> hReset,
                                body |-> "none",
                                thrown |-> QuotaThrows(TRUE, status, "json"),
                                gap |-> 0, prev |-> lastReq.status]
    /\ pc' = "job"
    /\ UNCHANGED <<elapsed, rateLimitInfo, delays, uuid, startGap, rateCheck>>
    /\ UNCHANGED <<batchVars, pollVars, postVars, envVars, toolVars>>

\* saveResults(rs): the metadata of the JSON file
SaveResults(rs) ==
    [totalResults |-> Len(rs),
     successfulResults |-> Len(SelectSeq(rs, LAMBDA r : r.sucesso)),
     failedResults |-> Len(SelectSeq(rs, LAMBDA r : ~r.sucesso))]

\* the end of an iteration of analyzeFromFile: i++, the loop test, and
\* either the head of the next iteration or saveResults and the return
NextUrl ==
    /\ i' = i + 1
    /\ IF MoreUrls(i + 1, Len(urls))
         THEN /\ pc' = IF ShowsStatus(i + 1) THEN "status" ELSE "job"
              /\ saved' = saved
         ELSE /\ pc' = "done"
              /\ saved' = SaveResults(resultados)

\* FinishJob with a failed job ending the batch
FinishJobAbortsOnFailure(r) ==
    /\ resultado' = r
    /\ sucessos' = IF IsSucesso(r) THEN sucessos + 1 ELSE sucessos
    /\ falhas' = IF IsSucesso(r) THEN falhas ELSE falhas + 1
    /\ processed' = Append(processed, [url |-> urls[i + 1], sucesso |-> r.sucesso])
    /\ elapsed' = 0
    /\ IF ~IsSucesso(r)
         THEN pc' = "done" /\ saved' = SaveResults(resultados) /\ i' = i
         ELSE IF NeedsDelay(i, Len(urls))
                THEN pc' = "delay" /\ UNCHANGED <<i, saved>>
                ELSE NextUrl

\* the return of submitAndWaitForAnalysis to the loop body of
\* analyzeFromFile: the counters, then either the await of the
\* inter-request delay or, after the last URL, the loop exit, saveResults
\* and the return (no await in between)
FinishJob(r) ==
    /\ resultado' = r
    /\ sucessos' = IF IsSucesso(r) THEN sucessos + 1 ELSE sucessos
    /\ falhas' = IF IsSucesso(r) THEN falhas ELSE falhas + 1
    /\ processed' = Append(processed, [url |-> urls[i + 1], sucesso |-> r.sucesso])
    /\ elapsed' = 0
    /\ IF NeedsDelay(i, Len(urls))
         THEN pc' = "delay" /\ UNCHANGED <<i, saved>>
         ELSE NextUrl

\* SubmitAndWaitForAnalysis without the check of the API key
SubmitAndWaitForAnalysisNoKeyCheck ==
    /\ pc = "job"
    /\ startGap' = elapsed
    /\ uuid' = "" /\ attempt' = 0 /\ posts' = 0 /\ gets' = 0
    /\ payload' = NoPayload /\ lastReq' = NoReq /\ prior404' = TRUE
    /\ rateCheck' = NoCheck
    /\ pc' = "rate"
    /\ resultado' = NoResultado
    /\ UNCHANGED <<i, sucessos, falhas, processed, saved, elapsed>>
    /\ UNCHANGED <<rateLimitInfo, delays, envVars, toolVars>>

\* submitAndWaitForAnalysis, up to the call of submitToUrlScan
SubmitAndWaitForAnalysis ==
    /\ pc = "job"
    /\ startGap' = elapsed
    /\ uuid' = "" /\ attempt' = 0 /\ posts' = 0 /\ gets' = 0
    /\ payload' = NoPayload /\ lastReq' = NoReq /\ prior404' = TRUE
    /\ rateCheck' = NoCheck
    /\ IF apiKey = ""
         THEN FinishJob(Failure("NoKey"))
         ELSE /\ pc' = "rate"
              /\ resultado' = NoResultado
              /\ UNCHANGED <<i, sucessos, falhas, processed, saved, elapsed>>
    /\ UNCHANGED <<rateLimitInfo, delays, envVars, toolVars>>

\* WaitForRateLimit without the reset of remaining after the suspension
WaitForRateLimitKeepsRemaining ==
    /\ pc = "rate"
    /\ IF MustWaitForRateLimit(rateLimitInfo)
         THEN LET waited == Delay(rateLimitInfo.reset + RateLimitBuffer) IN
              /\ elapsed' = Stopwatch(elapsed, waited)
              /\ rateLimitInfo' = [rateLimitInfo EXCEPT
                                     !.reset = NotPast(RateLimitWindow - waited)]
              /\ rateCheck' = [checked |-> TRUE,
                               remaining |-> rateLimitInfo.remaining,
                               reset |-> rateLimitInfo.reset,
                               waited |-> waited]
         ELSE /\ UNCHANGED <<elapsed, rateLimitInfo>>
              /\ rateCheck' = [checked |-> TRUE,
                               remaining |-> rateLimitInfo.remaining,
                               reset |-> rateLimitInfo.reset,
                               waited |-> 0]
    /\ pc' = "post"
    /\ UNCHANGED <<delays, uuid, startGap, lastReq>>
    /\ UNCHANGED <<batchVars, pollVars, postVars, envVars, toolVars>>

\* waitForRateLimit at the head of submitToUrlScan; waitTime = reset - now
WaitForRateLimit ==
    /\ pc = "rate"
    /\ IF MustWaitForRateLimit(rateLimitInfo)
         THEN LET waited == Delay(rateLimitInfo.reset + RateLimitBuffer) IN
              /\ elapsed' = Stopwatch(elapsed, waited)
              /\ rateLimitInfo' = [remaining |-> 1,
                                   reset |-> NotPast(RateLimitWindow - waited)]
              /\ rateCheck' = [checked |-> TRUE,
                               remaining |-> rateLimitInfo.remaining,
                               reset |-> rateLimitInfo.reset,
                               waited |-> waited]
         ELSE /\ UNCHANGED <<elapsed, rateLimitInfo>>
              /\ rateCheck' = [checked |-> TRUE,
                               remaining |-> rateLimitInfo.remaining,
                               reset |-> rateLimitInfo.reset,
                               waited |-> 0]
    /\ pc' = "post"
    /\ UNCHANGED <<delays, uuid, startGap, lastReq>>
    /\ UNCHANGED <<batchVars, pollVars, postVars, envVars, toolVars>>

\* the POST of submitToUrlScan and everything up to the next await
SubmitToUrlScan ==
    /\ pc = "post"
    /\ \E status \in PostStatuses \cup {NetFail},
          hRemaining \in {NoHeader, 0, HeaderRemainingMax},
          hReset \in {NoHeader, ResetAheadSec},
          textRL \in BOOLEAN,
          body \in Uuids \cup {"nouuid", "bad", "none"} :
         /\ status = 200 <=> body # "none"
         /\ status \in {NetFail, 200, 401, 402, 429} => ~textRL
         /\ status = NetFail => hRemaining = NoHeader /\ hReset = NoHeader
         /\ posts + 1 >= MaxPosts => ~MessageHasRateLimit(status, textRL)
         /\ posts' = posts + 1
         /\ payload' = [url |-> urls[i + 1],
                        visibility |-> ScanVisibility(BatchVisibilityArg,
                                                      config.defaultVisibility)]
         /\ lastReq' = [kind |-> "POST", status |-> status,
                         hRemaining |-> hRemaining, hReset |-> hReset,
                         body |-> body, thrown |-> SubmitThrows(status, body),
                         gap |-> IF posts = 0 THEN 0 ELSE elapsed,
                         prev |-> lastReq.status]
         /\ rateCheck' = NoCheck
         /\ rateLimitInfo' = AfterPostResponse(rateLimitInfo, status, hRemaining, hReset)
         /\ CASE status = 200 /\ body \in Uuids ->
                   /\ uuid' = body
                   /\ pc' = "poll_sleep"
                   /\ attempt' = 1
                   /\ elapsed' = 0
                   /\ UNCHANGED batchVars
              [] status = 200 /\ body = "nouuid" ->
                   /\ FinishJob(Failure("SubmitFailed"))
                   /\ UNCHANGED <<uuid, attempt>>
              [] status = 200 /\ body = "bad" ->
                   /\ FinishJob(Failure("BadJson"))
                   /\ UNCHANGED <<uuid, attempt>>
              [] status # 200 /\ MessageHasRateLimit(status, textRL) ->
                   /\ pc' = "cooldown"
                   /\ elapsed' = 0
                   /\ UNCHANGED <<uuid, attempt, batchVars>>
              [] OTHER ->
                   /\ FinishJob(Failure(SubmitErrorKind(status)))
                   /\ UNCHANGED <<uuid, attempt>>
    /\ UNCHANGED <<delays, startGap, gets, prior404, envVars, toolVars>>

\* SubmitRetry with the second POST issued without waitForRateLimit
SubmitRetrySkipsRateCheck ==
    /\ pc = "cooldown"
    /\ Pass(Delay(SubmitCooldown))
    /\ pc' = "post"
    /\ UNCHANGED <<delays, uuid, startGap, lastReq, rateCheck>>
    /\ UNCHANGED <<batchVars, pollVars, postVars, envVars, toolVars>>

\* SubmitRetry without the cooldown
SubmitRetryNoCooldown ==
    /\ pc = "cooldown"
    /\ pc' = "rate"
    /\ UNCHANGED <<elapsed, rateLimitInfo, delays, uuid, startGap, lastReq, rateCheck>>
    /\ UNCHANGED <<batchVars, pollVars, postVars, envVars, toolVars>>

\* the catch block of submitToUrlScan: delay(60000), then the recursive call
SubmitRetry ==
    /\ pc = "cooldown"
    /\ Pass(Delay(SubmitCooldown))
    /\ pc' = "rate"
    /\ UNCHANGED <<delays, uuid, startGap, lastReq, rateCheck>>
    /\ UNCHANGED <<batchVars, pollVars, postVars, envVars, toolVars>>

\* PollSleep without the delay before the GET
PollSleepNoDelay ==
    /\ pc = "poll_sleep"
    /\ IF MoreAttempts(attempt, config.maxPollingAttempts)
         THEN /\ pc' = "poll_get"
              /\ UNCHANGED <<elapsed, rateLimitInfo, batchVars>>
         ELSE /\ FinishJob(Failure("Timeout"))
              /\ UNCHANGED rateLimitInfo
    /\ UNCHANGED <<delays, uuid, startGap, lastReq, rateCheck>>
    /\ UNCHANGED <<pollVars, postVars, envVars, toolVars>>

\* the head of the polling loop: loop test, then delay(pollingInterval);
\* when the loop is over, the throw after it
PollSleep ==
    /\ pc = "poll_sleep"
    /\ IF MoreAttempts(attempt, config.maxPollingAttempts)
         THEN /\ Pass(Delay(PollingInterval))
              /\ pc' = "poll_get"
              /\ UNCHANGED batchVars
         ELSE /\ FinishJob(Failure("Timeout"))
              /\ UNCHANGED rateLimitInfo
    /\ UNCHANGED <<delays, uuid, startGap, lastReq, rateCheck>>
    /\ UNCHANGED <<pollVars, postVars, envVars, toolVars>>

\* one result GET and the rest of the loop body up to the next await
PollGet ==
    /\ pc = "poll_get"
    /\ \E status \in GetStatuses \cup {NetFail},
          hRemaining \in {NoHeader, 0, HeaderRemainingMax},
          hReset \in {NoHeader, ResetAheadSec},
          body \in {"json", "null", "bad", "none"} :
         /\ status = 200 <=> body # "none"
         /\ status = NetFail => hRemaining = NoHeader /\ hReset = NoHeader
         /\ gets' = gets + 1
         /\ prior404' = (prior404 /\ (gets = 0 \/ lastReq.status = 404))
         /\ lastReq' = [kind |-> "GET", status |-> status,
                         hRemaining |-> hRemaining, hReset |-> hReset,
                         body |-> body, thrown |-> PollThrows(status, body),
                         gap |-> elapsed, prev |-> lastReq.status]
         /\ rateLimitInfo' = IF status = NetFail THEN rateLimitInfo
                             ELSE UpdateRateLimitFromHeaders(rateLimitInfo, hRemaining, hReset)
         /\ CASE PollBranch(status, body) = "return" ->
                   /\ FinishJob(IF body = "json" THEN Success(uuid, body)
                                ELSE Failure("NoResult"))
                   /\ UNCHANGED attempt
              [] PollBranch(status, body) = "next" ->
                   /\ attempt' = NextAttempt(attempt)
                   /\ pc' = "poll_sleep"
                   /\ elapsed' = 0
                   /\ UNCHANGED batchVars
              [] PollBranch(status, body) = "cooldown" ->
                   /\ pc' = "poll_429"
                   /\ elapsed' = 0
                   /\ UNCHANGED <<attempt, batchVars>>
              [] OTHER ->
                   IF CatchRethrows(attempt, config.maxPollingAttempts)
                     THEN /\ FinishJob(Failure("Timeout"))
                          /\ UNCHANGED attempt
                     ELSE /\ attempt' = NextAttempt(attempt)
                          /\ pc' = "poll_sleep"
                          /\ elapsed' = 0
                          /\ UNCHANGED batchVars
    /\ UNCHANGED <<delays, uuid, startGap, rateCheck, postVars, envVars, toolVars>>

\* the 429 branch of the polling loop: delay(60000), then `continue`
PollRateLimited ==
    /\ pc = "poll_429"
    /\ Pass(Delay(PollCooldown))
    /\ attempt' = NextAttempt(attempt)
    /\ pc' = "poll_sleep"
    /\ UNCHANGED <<delays, uuid, startGap, gets, prior404, lastReq, rateCheck>>
    /\ UNCHANGED <<batchVars, postVars, envVars, toolVars>>

\* the delay between two URLs and the loop increment
InterRequestDelay ==
    /\ pc = "delay"
    /\ Pass(Delay(MinDelayBetweenRequests))
    /\ delays' = delays + 1
    /\ NextUrl
    /\ UNCHANGED <<uuid, startGap, lastReq, rateCheck>>
    /\ UNCHANGED <<sucessos, falhas, processed, resultado>>
    /\ UNCHANGED <<pollVars, postVars, envVars, toolVars>>

Next ==
    \/ AnalyzeFromFile
    \/ ShowCurrentRateLimitStatus
    \/ SubmitAndWaitForAnalysis
    \/ WaitForRateLimit
    \/ SubmitToUrlScan
    \/ SubmitRetry
    \/ PollSleep
    \/ PollGet
    \/ PollRateLimited
    \/ InterRequestDelay

Spec == Init /\ [][Next]_vars

\* one thread of control whose every await resolves: a timer fires, a
\* fetch is answered or rejects
FairSpec == Spec /\ WF_vars(Next)

(* --------------------------- menu handlers ---------------------------- *)
\* The handlers of the main menu other than the analysis, each called at
\* the menu and run to its end: the credential store (auth/index.js), the
\* visibility option (optionsManager.js), the quota check and the clean-up.

\* the logger writes (or overwrites) the file of a category
Logged(logs, category) == logs \cup {category}

MenuInit ==
    /\ pc = "menu"
    /\ elapsed = 0
    /\ apiKey = ""
    /\ config = [maxPollingAttempts |-> MaxAttempts, defaultVisibility |-> "public"]
    /\ urls = <<>>
    /\ rateLimitInfo = [remaining |-> InitialRemaining, reset |-> RateLimitWindow]
    /\ i = 0
    /\ sucessos = 0 /\ falhas = 0 /\ resultados = <<>>
    /\ processed = <<>> /\ delays = 0
    /\ resultado = NoResultado
    /\ uuid = "" /\ attempt = 0 /\ posts = 0 /\ gets = 0
    /\ payload = NoPayload /\ lastReq = NoReq /\ prior404 = TRUE
    /\ rateCheck = NoCheck
    /\ startGap = 0
    /\ saved = NoSaved
    /\ files \in [key : InitKeyFiles, visibility : InitVisibilityFiles,
                   options : {OptionFiles}, logs : SUBSET {"json", "erros"}]
    /\ lastSaved = IF files.key.exists THEN KeyA ELSE NullKey
    /\ ret = NoCall

\* authManager.saveApiKey(k)
SaveApiKey ==
    /\ pc = "menu"
    /\ \E k \in KeyInputs :
         IF IsValidApiKey(k)
           THEN /\ files' = [files EXCEPT !.key = KeyFile(k, EncryptionKey, "1.0"),
                                          !.logs = Logged(@, "sucesso")]
                /\ lastSaved' = k
                /\ ret' = [op |-> "saveApiKey", key |-> k, result |-> TRUE]
           ELSE /\ files' = [files EXCEPT !.logs = Logged(@, "erros")]
                /\ lastSaved' = lastSaved
                /\ ret' = [op |-> "saveApiKey", key |-> k, result |-> FALSE]
    /\ UNCHANGED <<pc, runVars>>

\* authManager.removeApiKey()
RemoveApiKey ==
    /\ pc = "menu"
    /\ IF files.key.exists
         THEN /\ files' = [files EXCEPT !.key = NoKeyFile,
                                        !.logs = Logged(@, "info")]
              /\ ret' = [op |-> "removeApiKey", result |-> TRUE]
         ELSE /\ files' = files
              /\ ret' = [op |-> "removeApiKey", result |-> FALSE]
    /\ UNCHANGED <<pc, lastSaved, runVars>>

\* optionsManager.setScanVisibility(v)
SetScanVisibility ==
    /\ pc = "menu"
    /\ \E v \in VisibilityInputs :
         /\ files' = IF v \in Visibilities
                       THEN [files EXCEPT !.visibility = <<v>>,
                                          !.logs = Logged(@, "sucesso")]
                       ELSE files
         /\ ret' = [op |-> "setScanVisibility", visibility |-> v]
    /\ UNCHANGED <<pc, lastSaved, runVars>>

\* checkRateLimit() from the menu: getApiKey, the quota GET, the result
MenuCheckRateLimit ==
    /\ pc = "menu"
    /\ \E status \in QuotaStatuses \cup {NetFail},
          body \in {"json", "nolimits", "null", "bad", "none"} :
         LET hasKey == GetApiKey(files.key) # NullKey
             result == CheckRateLimit(hasKey, status, body)
         IN /\ status = 200 <=> body # "none"
            /\ files' = [files EXCEPT !.logs =
                            Logged(@, IF result.isDefault THEN "erros" ELSE "info")]
            /\ ret' = [op |-> "checkRateLimit", hasKey |-> hasKey,
                        status |-> IF hasKey THEN status ELSE -1,
                        body |-> IF hasKey THEN body ELSE "none",
                        result |-> result]
    /\ UNCHANGED <<pc, lastSaved, runVars>>

\* CleanLogsAndExit with the clean-up done whatever the answer
CleanLogsAndExitUnasked ==
    /\ pc = "menu"
    /\ \E confirm \in BOOLEAN :
         /\ files' = [files EXCEPT
                         !.logs = IF files.key.exists THEN {"info"} ELSE {},
                         !.key = NoKeyFile]
         /\ ret' = [op |-> "cleanLogsAndExit", confirm |-> confirm,
                     success |-> TRUE, authCleaned |-> files.key.exists]
         /\ pc' = "exit"
    /\ UNCHANGED <<lastSaved, runVars>>

\* cleanLogsAndExit and, when it reports success, the process.exit of the
\* menu: after the prompt, clearAllLogs(true) removes every file under
\* logs/, then removeApiKey removes key.json and logs that it did
CleanLogsAndExit ==
    /\ pc = "menu"
    /\ \E confirm \in BOOLEAN :
         IF confirm
           THEN /\ files' = [files EXCEPT
                               !.logs = IF files.key.exists THEN {"info"} ELSE {},
                               !.key = NoKeyFile]
                /\ ret' = [op |-> "cleanLogsAndExit", confirm |-> TRUE,
                            success |-> TRUE, authCleaned |-> files.key.exists]
                /\ pc' = "exit"
           ELSE /\ files' = files
                /\ ret' = [op |-> "cleanLogsAndExit", confirm |-> FALSE,
                            success |-> FALSE, authCleaned |-> FALSE]
                /\ pc' = "menu"
    /\ UNCHANGED <<lastSaved, runVars>>

MenuNext ==
    \/ SaveApiKey
    \/ RemoveApiKey
    \/ SetScanVisibility
    \/ MenuCheckRateLimit
    \/ CleanLogsAndExit

MenuSpec == MenuInit /\ [][MenuNext]_vars

(* ------------------------------ functions ------------------------------ *)
\* calculateUsage and the tag lists of a submission, applied to inputs
\* drawn from bounded sets.

FunctionInit ==
    /\ pc = "menu"
    /\ elapsed = 0
    /\ apiKey = ""
    /\ config = [maxPollingAttempts |-> MaxAttempts, defaultVisibility |-> "public"]
    /\ urls = <<>>
    /\ rateLimitInfo = [remaining |-> InitialRemaining, reset |-> RateLimitWindow]
    /\ i = 0
    /\ sucessos = 0 /\ falhas = 0 /\ resultados = <<>>
    /\ processed = <<>> /\ delays = 0
    /\ resultado = NoResultado
    /\ uuid = "" /\ attempt = 0 /\ posts = 0 /\ gets = 0
    /\ payload = NoPayload /\ lastReq = NoReq /\ prior404 = TRUE
    /\ rateCheck = NoCheck
    /\ startGap = 0
    /\ saved = NoSaved
    /\ files = FilesFor("", "public")
    /\ lastSaved = NullKey
    /\ ret = NoCall

\* calculateUsage(used, limit)
ApplyCalculateUsage ==
    /\ \E used \in 0..MaxUsed, limit \in 0..MaxLimit :
         ret' = [op |-> "calculateUsage", used |-> used, limit |-> limit,
                 result |-> CalculateUsage(used, limit)]
    /\ UNCHANGED <<pc, files, lastSaved, runVars>>

\* analyzeSingleUrl: combineTags(customTags), and the tags of the payload
ApplyCombineTags ==
    /\ \E fixedLines \in FixedTagFiles,
          customTags \in SeqsUpTo(Tags \cup {""}, MaxTags) :
         ret' = [op |-> "combineTags", fixed |-> fixedLines, given |-> customTags,
                 tags |-> PayloadTags(CombineTags(fixedLines, customTags))]
    /\ UNCHANGED <<pc, files, lastSaved, runVars>>

\* analyzeFromFile: loadTags(), and the tags of the payload
ApplyLoadTags ==
    /\ \E fixedLines \in FixedTagFiles,
          tagLines \in SeqsUpTo(Tags \cup {"", "#note"}, MaxTags) :
         ret' = [op |-> "loadTags", fixed |-> fixedLines, given |-> tagLines,
                 tags |-> PayloadTags(LoadTags(fixedLines, tagLines))]
    /\ UNCHANGED <<pc, files, lastSaved, runVars>>

FunctionNext ==
    \/ ApplyCalculateUsage
    \/ ApplyCombineTags
    \/ ApplyLoadTags

FunctionSpec == FunctionInit /\ [][FunctionNext]_vars

(* ------------------------------ claims -------------------------------- *)

\* the job of the current iteration has returned to analyzeFromFile
JobOver == resultado # NoResultado

\* the batch ran to the end of its loop (saveResults was called)
BatchOver == pc = "done" /\ saved # NoSaved

Polling == pc \in {"poll_sleep", "poll_get", "poll_429"}
InJob == pc \in {"rate", "post", "cooldown"} \/ Polling

\* C1: one submit call issues at most two POSTs, and a 429 answer to the
\* retry POST ends the call with the RateLimitError instead of another retry.
C1_AtMostOneRetry ==
    /\ posts <= 2
    /\ (lastReq.kind = "POST" /\ posts = 2 /\ lastReq.status = 429)
         => (JobOver /\ resultado.erro = "RateLimit")

\* C2: a result GET answered 410 ends polling at once with ExpiredError,
\* on whichever attempt it occurs.
C2_ExpiredFailsFast ==
    (lastReq.kind = "GET" /\ lastReq.status = 410)
        => (JobOver /\ resultado.erro = "Expired")

\* C3 as stated: the step that ends the cooldown after a 429 retries the same
\* attempt index (the 429 does not consume an attempt slot).
C3_RateLimitedPollKeepsAttempt ==
    [][pc = "poll_429" => attempt' = attempt]_vars

\* C3 as amended: a GET answered 429 takes the extra 60 s before the next
\* GET (on top of the polling interval) and consumes its attempt slot like
\* any other answer: the attempt index is always one more than the GETs
\* issued, 429 answers included, and never more than maxAttempts GETs are
\* issued.
C3_RateLimitedPollConsumesAttempt ==
    /\ pc \in {"poll_sleep", "poll_get"} => attempt = gets + 1
    /\ pc = "poll_429" => (attempt = gets /\ lastReq.status = 429)
    /\ (lastReq.kind = "GET" /\ lastReq.prev = 429)
         => lastReq.gap >= PollCooldown + PollingInterval
    /\ gets <= config.maxPollingAttempts

C3_Witness ==
    /\ lastReq.kind = "GET" /\ lastReq.prev = 429
    /\ gets = 2 /\ config.maxPollingAttempts = 2 /\ JobOver

\* C4: whatever the result endpoint answers, poll issues at most maxAttempts
\* GETs and then ends (the job returns); a job reported as a success had its
\* last GET answered 200, every other job that is over carries an error;
\* and when every GET was answered 404 the error is the timeout, after
\* maxAttempts GETs.
C4_PollBounded ==
    /\ [](/\ gets <= config.maxPollingAttempts
          /\ Polling => attempt <= config.maxPollingAttempts + 1
          /\ pc \in {"poll_get", "poll_429"} => attempt <= config.maxPollingAttempts
          /\ resultado.sucesso => (lastReq.kind = "GET" /\ lastReq.status = 200)
          /\ (JobOver /\ ~resultado.sucesso) => resultado.erro # "none"
          /\ (JobOver /\ lastReq.kind = "GET" /\ prior404 /\ lastReq.status = 404)
               => (resultado.erro = "Timeout" /\ gets = config.maxPollingAttempts))
    /\ (Polling ~> JobOver)

C4_Witness ==
    /\ JobOver /\ lastReq.kind = "GET" /\ prior404 /\ lastReq.status = 404
    /\ gets = 2 /\ resultado.erro = "Timeout"

\* C5: a first POST answered 429 is followed by a retry; when the retry is
\* answered 200 with a job id it was issued at least the 60 s cooldown after
\* the 429, the submit returns the job with that id, and no further POST is
\* issued for the job.
C5_RetryAfterCooldown ==
    /\ [](/\ (lastReq.kind = "POST" /\ posts = 1 /\ lastReq.status = 429)
               => (pc \in {"cooldown", "rate", "post"} /\ ~JobOver)
          /\ (lastReq.kind = "POST" /\ posts = 2 /\ lastReq.prev = 429
                /\ lastReq.status = 200 /\ lastReq.body \in Uuids)
               => /\ lastReq.gap >= SubmitCooldown
                  /\ uuid = lastReq.body
                  /\ pc \in {"poll_sleep", "poll_get"} /\ attempt = 1
                  /\ gets = 0 /\ ~JobOver)
    /\ [][Polling => posts' = posts]_vars

C5_Witness ==
    /\ lastReq.kind = "POST" /\ posts = 2 /\ lastReq.prev = 429
    /\ lastReq.status = 200 /\ lastReq.body \in Uuids

\* C6: 404 answers are not surfaced and polling goes on; a 200 carrying a
\* result document on GET number N, after N-1 answers 404, ends polling then
\* and there: the job is over after exactly N <= maxAttempts GETs and
\* succeeds with that document.
C6_SuccessOnNthGet ==
    /\ (~JobOver /\ lastReq.kind = "GET" /\ lastReq.status = 404)
         => (pc \in {"poll_sleep", "poll_get"} /\ attempt = gets + 1)
    /\ (lastReq.kind = "GET" /\ lastReq.status = 200 /\ lastReq.body # "bad" /\ prior404)
         => /\ JobOver /\ ~InJob
            /\ gets <= config.maxPollingAttempts
            /\ lastReq.body = "json" => resultado = Success(uuid, "json")

C6_Witness ==
    /\ lastReq.kind = "GET" /\ lastReq.status = 200 /\ lastReq.body = "json"
    /\ prior404 /\ gets = 2 /\ resultado.sucesso

\* the number of processed jobs that ended with the given outcome
CountOutcome(ok) == Cardinality({k \in 1..Len(processed) : processed[k].sucesso = ok})

\* C7: the jobs that have returned are those of the first URLs of the list,
\* each once and in list order, whatever their outcomes; a failed job is
\* counted in falhas, a successful one in sucessos, and the batch goes on; at
\* the end of the batch every URL has been processed and sucessos + falhas
\* is the number of URLs.
C7_EveryUrlOnce ==
    /\ Len(processed) <= Len(urls)
    /\ \A k \in 1..Len(processed) : processed[k].url = urls[k]
    /\ sucessos = CountOutcome(TRUE) /\ falhas = CountOutcome(FALSE)
    /\ pc = "delay" => (JobOver /\ Len(processed) = i + 1 /\ i + 1 < Len(urls))
    /\ BatchOver => (Len(processed) = Len(urls) /\ sucessos + falhas = Len(urls))
    /\ (pc = "done" /\ Len(processed) > 0) => BatchOver

C7_Witness ==
    /\ BatchOver /\ Len(urls) = 2
    /\ ~processed[1].sucesso /\ processed[2].sucesso

\* C8 as stated: without a credential no job is run and no inter-request
\* delay is taken.
C8_NoCredentialAbortsBatch ==
    apiKey = "" => (Len(processed) = 0 /\ delays = 0)

\* C8 as amended: without a credential the batch is not aborted: every URL
\* is run as a job that fails at the credential check, with no POST and no
\* GET, and is counted as a failure, and the inter-request delay is taken
\* between consecutive URLs.
C8_NoCredentialFailsEveryJob ==
    apiKey = "" =>
        /\ posts = 0 /\ gets = 0 /\ payload = NoPayload /\ sucessos = 0
        /\ falhas = Len(processed)
        /\ JobOver => resultado = Failure("NoKey")
        /\ pc = "delay" => Len(processed) = i + 1
        /\ BatchOver => (falhas = Len(urls) /\ delays = Len(urls) - 1)
        /\ (pc = "done" /\ Len(processed) > 0) => BatchOver

C8_Witness == apiKey = "" /\ BatchOver /\ Len(urls) = 2 /\ falhas = 2 /\ delays = 1

\* C9: every POST of the batch carries the configured scan visibility.
C9_PayloadCarriesConfiguredVisibility ==
    payload # NoPayload => payload.visibility = config.defaultVisibility

\* C10: one job at a time: while a job runs, the jobs of all earlier URLs and
\* of no other have returned; a job other than the first starts at least the
\* inter-request delay after the one before it returned; one delay is taken
\* per completed URL but the last (n - 1 in all); and a result GET is issued
\* only for the job that is running.
C10_OneJobAtATime ==
    /\ [](/\ InJob => (Len(processed) = i /\ ~JobOver /\ delays = i)
          /\ (InJob /\ i > 0) => startGap >= MinDelayBetweenRequests
          /\ pc = "delay" => delays = i
          /\ BatchOver => delays = Len(urls) - 1)
    /\ [][gets' > gets => (pc = "poll_get" /\ ~JobOver /\ uuid # "" /\ Len(processed) = i)]_vars

C10_Witness == BatchOver /\ Len(urls) = 2 /\ delays = 1 /\ gets >= 1 /\ startGap >= MinDelayBetweenRequests

\* C11: waitForRateLimit does not suspend when it reads remaining > 0,
\* whatever the reset time; when it reads remaining <= 0 and a reset time in
\* the future it suspends for at least reset - now before it returns.
C11_SuspendsOnlyWhenExhausted ==
    rateCheck.checked =>
        /\ rateCheck.remaining > 0 => rateCheck.waited = 0
        /\ (rateCheck.remaining <= 0 /\ rateCheck.reset > 0) =>
               (rateCheck.waited >= rateCheck.reset /\ elapsed >= rateCheck.waited)

C11_Witness ==
    /\ rateCheck.checked /\ rateCheck.remaining <= 0 /\ rateCheck.reset > 0
    /\ rateCheck.waited >= rateCheck.reset /\ pc = "post"

\* C12: after waitForRateLimit has suspended, remaining is 1, so a call made
\* at once would not suspend again; when it did not suspend (remaining > 0,
\* or reset not in the future) the rate-limit state is what it was.
C12_PlaceholderAfterSuspension ==
    /\ [](rateCheck.checked =>
            /\ rateCheck.waited > 0 =>
                   (rateLimitInfo.remaining = 1 /\ ~MustWaitForRateLimit(rateLimitInfo))
            /\ rateCheck.waited = 0 =>
                   rateLimitInfo = [remaining |-> rateCheck.remaining,
                                    reset |-> rateCheck.reset])
    /\ [][(pc = "rate" /\ ~MustWaitForRateLimit(rateLimitInfo)) =>
              (rateLimitInfo' = rateLimitInfo /\ elapsed' = elapsed)]_vars

C12_Witness ==
    /\ rateCheck.checked /\ rateCheck.waited > 0 /\ rateCheck.remaining = 0
    /\ rateLimitInfo.remaining = 1 /\ pc = "post"

\* a step in which a POST or a result GET is issued and answered
RequestStep == posts' = posts + 1 \/ gets' = gets + 1

\* C13: updateRateLimitFromHeaders changes remaining only when the response
\* carries the remaining header and reset only when it carries the reset
\* header, each independently of the other; a response with neither header
\* leaves the rate-limit state as it was; a remaining header of 0 sets
\* remaining to 0.
C13_HeadersUpdateIndependently ==
    [][(RequestStep /\ lastReq'.status # NetFail) =>
          /\ lastReq'.hRemaining = NoHeader =>
                 rateLimitInfo'.remaining = rateLimitInfo.remaining
          /\ lastReq'.hRemaining # NoHeader =>
                 rateLimitInfo'.remaining = lastReq'.hRemaining
          /\ lastReq'.hRemaining = 0 => rateLimitInfo'.remaining = 0
          /\ lastReq'.hReset = NoHeader =>
                 rateLimitInfo'.reset = rateLimitInfo.reset
          /\ lastReq'.hReset # NoHeader =>
                 rateLimitInfo'.reset = lastReq'.hReset * 1000
          /\ (lastReq'.hRemaining = NoHeader /\ lastReq'.hReset = NoHeader) =>
                 rateLimitInfo' = rateLimitInfo]_vars

C13_Witness ==
    /\ lastReq.kind = "GET" /\ lastReq.hRemaining = 0 /\ lastReq.hReset = NoHeader
    /\ rateLimitInfo.remaining = 0 /\ rateLimitInfo.reset < ResetAheadSec * 1000
    /\ pc = "poll_sleep"

\* C14: every HTTP response to a submit POST, whatever its status, updates
\* the rate-limit state from its headers before the outcome of the call is
\* returned or raised: the state in which the job has failed, the retry
\* cooldown begins or polling begins already holds the header values.
C14_EveryPostResponseUpdates ==
    /\ [][(posts' = posts + 1 /\ lastReq'.status \in PostStatuses) =>
              rateLimitInfo' = UpdateRateLimitFromHeaders(rateLimitInfo,
                                   lastReq'.hRemaining, lastReq'.hReset)]_vars
    /\ []((lastReq.kind = "POST" /\ lastReq.status \in PostStatuses
            /\ lastReq.hRemaining # NoHeader /\ pc # "post") =>
              rateLimitInfo.remaining = lastReq.hRemaining)

C14_Witness ==
    /\ lastReq.kind = "POST" /\ lastReq.status = 401 /\ lastReq.hRemaining = 0
    /\ lastReq.hReset = ResetAheadSec
    /\ JobOver /\ resultado.erro = "Auth" /\ pc = "delay"
    /\ rateLimitInfo = [remaining |-> 0, reset |-> ResetAheadSec * 1000]

\* C15: a successful quota response seeds the rate tracker: after it the
\* rate-limit state holds the counters of the quota response, not the
\* constructor defaults.
C15_QuotaSeedsTracker ==
    (lastReq.kind = "QUOTA" /\ lastReq.status = 200) =>
        /\ lastReq.hRemaining # NoHeader =>
               rateLimitInfo.remaining = lastReq.hRemaining
        /\ lastReq.hReset # NoHeader =>
               rateLimitInfo.reset = lastReq.hReset * 1000

\* C16 as claimed: every 4xx status without a kind of its own is a
\* malformed request and yields the validation error.
C16_Every4xxIsValidation ==
    (lastReq.kind = "POST" /\ lastReq.status \in (400..499) \ {401, 402, 429}) =>
        lastReq.thrown = "Validation"

\* C16: submit maps 401 to the authentication error, 400 (and no other
\* status) to the validation error, 402 to the quota error and 429 to the
\* rate-limit error, four different kinds; every other failing status,
\* 4xx or not, yields the generic HTTP error; a failure that is not
\* retried is the error of the job.
C16_StatusToErrorKind ==
    /\ \A s1, s2 \in {400, 401, 402, 429} :
          s1 # s2 => SubmitErrorKind(s1) # SubmitErrorKind(s2)
    /\ lastReq.kind = "POST" =>
          /\ lastReq.status = 401 => lastReq.thrown = "Auth"
          /\ lastReq.status = 400 => lastReq.thrown = "Validation"
          /\ lastReq.status = 402 => lastReq.thrown = "Quota"
          /\ lastReq.status = 429 => lastReq.thrown = "RateLimit"
          /\ lastReq.status \notin {NetFail, 200, 400, 401, 402, 429} =>
                 lastReq.thrown = "Http"
          /\ (JobOver /\ lastReq.status # 200) => resultado.erro = lastReq.thrown

C16_Witness ==
    /\ lastReq.kind = "POST" /\ lastReq.status = 400 /\ JobOver
    /\ resultado.erro = "Validation" /\ posts = 1

\* C17: a submit failure other than HTTP 429 is not retried: the POST that
\* failed is the last of the call, no cooldown is taken and the error is
\* the error of the job.
C17_NoRetryUnlessRateLimited ==
    /\ pc = "cooldown" => lastReq.status = 429
    /\ (lastReq.kind = "POST" /\ lastReq.status \notin {200, 429}) =>
          (JobOver /\ resultado.erro = lastReq.thrown)
    /\ (lastReq.kind = "POST" /\ posts > 1) => lastReq.prev = 429

\* a result GET answered with a status without a branch of its own, or
\* not answered at all
TransientGet(status) == status \notin {200, 404, 410, 429}

\* C18: a result GET that is answered with a status other than
\* 200/404/410/429, or that fails at network level, does not end polling
\* on an attempt before the last: the next attempt follows, and a 200 on
\* it yields success; on the last attempt the job fails with the timeout.
C18_TransientGetFailure ==
    lastReq.kind = "GET" =>
        /\ (TransientGet(lastReq.status) /\ gets < config.maxPollingAttempts) =>
               (~JobOver /\ pc \in {"poll_sleep", "poll_get"} /\ attempt = gets + 1)
        /\ (TransientGet(lastReq.status) /\ gets = config.maxPollingAttempts) =>
               (JobOver /\ resultado = Failure("Timeout"))
        /\ (lastReq.status = 200 /\ lastReq.body = "json" /\ TransientGet(lastReq.prev)) =>
               (JobOver /\ IsSucesso(resultado))

C18_Witness ==
    /\ lastReq.kind = "GET" /\ lastReq.status = 200 /\ lastReq.prev = 500
    /\ gets = 2 /\ JobOver /\ IsSucesso(resultado)

\* C19: the polling interval is slept before every result GET, the first
\* included: no GET is made at the time of the POST, and at least one
\* interval lies between two consecutive GETs of a job.
C19_SleepBeforeEveryGet ==
    /\ [](lastReq.kind = "GET" => lastReq.gap >= PollingInterval)
    /\ [][gets' = gets + 1 => elapsed >= PollingInterval]_vars

C19_Witness ==
    /\ lastReq.kind = "GET" /\ gets = 2 /\ lastReq.prev = 404
    /\ lastReq.gap = PollingInterval

\* C20: a POST answered with success and job id u yields the job u: the
\* id is kept through polling, and the success record carries uuid = u and
\* the report URL built from u.
C20_JobIdCarriedThrough ==
    /\ []((lastReq.kind = "POST" /\ lastReq.status = 200 /\ lastReq.body \in Uuids) =>
             uuid = lastReq.body)
    /\ []((JobOver /\ IsSucesso(resultado)) =>
             (uuid \in Uuids /\ resultado.uuid = uuid
              /\ resultado.urlRelatorio = <<"https://urlscan.io/result/", uuid, "/">>))
    /\ [][Polling => uuid' = uuid]_vars

C20_Witness ==
    /\ JobOver /\ IsSucesso(resultado) /\ uuid = "id2" /\ resultado.uuid = "id2"
    /\ resultado.urlRelatorio = <<"https://urlscan.io/result/", "id2", "/">>

\* C22: a job run without a usable credential (getApiKey returns null)
\* issues no POST and no GET and ends as one failure, of its own URL; the
\* batch goes on: the delay and the next URL follow, and at the end every
\* URL has been processed.
C22_NoKeyJobFailsAlone ==
    /\ [](apiKey = "" => (posts = 0 /\ gets = 0))
    /\ [][(pc = "job" /\ apiKey = "") =>
              /\ resultado' = Failure("NoKey")
              /\ falhas' = falhas + 1 /\ sucessos' = sucessos
              /\ processed' = Append(processed, [url |-> urls[i + 1], sucesso |-> FALSE])
              /\ i + 1 < Len(urls) => pc' = "delay"]_vars
    /\ []((apiKey = "" /\ BatchOver) => Len(processed) = Len(urls))

C22_Witness ==
    /\ apiKey = "" /\ pc = "delay" /\ i = 0 /\ Len(urls) = 2
    /\ resultado = Failure("NoKey") /\ falhas = 1

\* C23: submitAndWaitForAnalysis always returns a record: a failure of the
\* credential lookup, of the submit or of the polling is a record with
\* sucesso = false and the message of the error; a record has sucesso = true
\* only if the POST returned a job id and the polling returned a result
\* for that id.
C23_AlwaysARecord ==
    JobOver =>
        /\ resultado.sucesso =>
              /\ posts >= 1 /\ uuid \in Uuids /\ resultado.uuid = uuid
              /\ lastReq.kind = "GET" /\ lastReq.status = 200
              /\ lastReq.body = "json" /\ resultado.data = lastReq.body
              /\ resultado.erro = "none"
        /\ ~resultado.sucesso =>
              /\ resultado.erro # "none" /\ resultado.uuid = ""
              /\ posts = 0 => resultado.erro = "NoKey"
              /\ (posts > 0 /\ gets = 0) =>
                    resultado.erro = IF lastReq.thrown # "none" THEN lastReq.thrown
                                     ELSE "SubmitFailed"
              /\ gets > 0 => resultado.erro \in {"Timeout", "NoResult"}

C23_Witness ==
    /\ JobOver /\ ~resultado.sucesso /\ resultado.erro = "NoResult"
    /\ lastReq.kind = "GET" /\ lastReq.status = 200 /\ lastReq.body = "null"

\* C24: the rate-limit state is read before every POST, the POST of the
\* automatic retry included: no POST is issued when the check before it read
\* remaining <= 0 and a reset time in the future, unless the call was
\* suspended until after that reset time.
C24_RateCheckedBeforeEveryPost ==
    /\ [](pc = "post" => rateCheck.checked)
    /\ [][posts' = posts + 1 =>
              /\ rateCheck.checked
              /\ (rateCheck.remaining <= 0 /\ rateCheck.reset > 0) =>
                     rateCheck.waited > rateCheck.reset]_vars

C24_Witness ==
    /\ pc = "post" /\ posts = 1 /\ lastReq.kind = "POST" /\ lastReq.status = 429
    /\ rateCheck.checked /\ rateCheck.remaining = 0

\* C25: at the end of a batch the result list handed to saveResults holds
\* one record per processed URL: its length is sucessos + falhas, and the
\* saved metadata equals the batch counters.
C25_ResultListMatchesCounters ==
    BatchOver =>
        /\ Len(resultados) = sucessos + falhas
        /\ saved = [totalResults |-> sucessos + falhas,
                    successfulResults |-> sucessos,
                    failedResults |-> falhas]

\* the members of a list
Range(seq) == {seq[k] : k \in 1..Len(seq)}
NoDuplicates(seq) == \A j, k \in 1..Len(seq) : j # k => seq[j] # seq[k]

\* C21: the tag list of the outgoing payload has no duplicates, for every
\* tag list given to a submission, and holds every tag given (fixed or
\* custom) that is not blank: tags a, b, a are sent as the two tags a, b.
C21_PayloadTagsDeduplicated ==
    ret.op \in {"combineTags", "loadTags"} =>
        /\ NoDuplicates(ret.tags)
        /\ Range(ret.tags) =
              (Range(ret.fixed) \ {"", "#note"})
              \cup (Range(ret.given) \ (IF ret.op = "loadTags" THEN {"", "#note"} ELSE {""}))
        /\ (ret.op = "combineTags" /\ ret.fixed = <<>> /\ ret.given = <<"a", "b", "a">>) =>
              ret.tags = <<"a", "b">>

C21_Witness ==
    /\ ret.op = "combineTags" /\ ret.fixed = <<>> /\ ret.given = <<"a", "b", "a">>
    /\ ret.tags = <<"a", "b">>

\* C26: cleanLogsAndExit removes files only after the user confirms: when
\* declined, the log files and key.json are as before; when confirmed,
\* every log file is removed (nothing is left under logs/ but the line the
\* logger writes about the removal of the key) and key.json is removed; in
\* both cases the option files are unchanged.
C26_CleanOnlyWhenConfirmed ==
    [][ret'.op = "cleanLogsAndExit" =>
          /\ ret'.confirm =>
                /\ ~files'.key.exists
                /\ files'.logs = IF files.key.exists THEN {"info"} ELSE {}
                /\ ret'.authCleaned = files.key.exists
          /\ ~ret'.confirm => (files'.logs = files.logs /\ files'.key = files.key)
          /\ files'.options = files.options
          /\ files'.visibility = files.visibility]_vars

C26_Witness ==
    /\ ret.op = "cleanLogsAndExit" /\ ret.confirm /\ ret.authCleaned
    /\ ~files.key.exists /\ files.logs = {"info"} /\ pc = "exit"
    /\ files.visibility = <<"friends">>

\* C27: checkRateLimit always returns: without a credential, after a
\* non-OK answer or after a request that failed it returns the default
\* free-plan limits with isDefault = true; isDefault = false is returned
\* only after an OK quota response.
C27_QuotaCheckNeverRaises ==
    ret.op = "checkRateLimit" =>
        /\ ret.result.isDefault \in BOOLEAN
        /\ (~ret.hasKey \/ ret.status # 200) =>
              (ret.result.isDefault /\ ret.result.team = "Free Plan (Default)")
        /\ ~ret.result.isDefault => (ret.hasKey /\ ret.status = 200)

C27_Witness ==
    /\ ret.op = "checkRateLimit" /\ ret.hasKey /\ ret.status = 401
    /\ ret.result.isDefault

\* C28: calculateUsage(used, limit) over non-negative integers: for
\* limit = 0 the status is disabled and used, remaining and percentage are
\* 0; for limit > 0 remaining is max(0, limit - used), never negative, the
\* percentage is used / limit * 100 rounded to the nearest integer, and the
\* status is critical for a percentage >= 80, warning for 50..79, low below.
C28_UsageStatus ==
    ret.op = "calculateUsage" =>
        LET r == ret.result IN
        /\ ret.limit = 0 =>
              (r.status = "disabled" /\ r.used = 0 /\ r.remaining = 0 /\ r.percentage = 0)
        /\ ret.limit > 0 =>
              /\ r.remaining >= 0
              /\ r.remaining = IF ret.used >= ret.limit THEN 0 ELSE ret.limit - ret.used
              /\ 2 * (100 * ret.used - r.percentage * ret.limit) <= ret.limit
              /\ 2 * (r.percentage * ret.limit - 100 * ret.used) <= ret.limit
              /\ r.status = "critical" <=> r.percentage >= 80
              /\ r.status = "warning" <=> (r.percentage >= 50 /\ r.percentage < 80)
              /\ r.status = "low" <=> r.percentage < 50

C28_Witness ==
    /\ ret.op = "calculateUsage" /\ ret.used > ret.limit /\ ret.limit > 0
    /\ ret.result.remaining = 0 /\ ret.result.status = "critical"

\* a key in UUID format
UuidShaped(k) == k.id # "" /\ k.groups = <<8, 4, 4, 4, 12>> /\ k.hex

\* C29: the stored credential is absent or UUID-shaped: saveApiKey with a
\* key that is not in UUID format returns false and leaves the stored key
\* as it was; after any sequence of saveApiKey and removeApiKey calls
\* getApiKey returns null or the last successfully saved key.
C29_StoredCredentialUuidOrAbsent ==
    /\ [](/\ GetApiKey(files.key) \in {NullKey, lastSaved}
          /\ GetApiKey(files.key) # NullKey => UuidShaped(GetApiKey(files.key))
          /\ lastSaved # NullKey => UuidShaped(lastSaved))
    /\ [][ret'.op = "saveApiKey" =>
              IF UuidShaped(ret'.key)
                THEN ret'.result /\ GetApiKey(files'.key) = ret'.key
                ELSE ~ret'.result /\ files'.key = files.key /\ lastSaved' = lastSaved]_vars
    /\ [][ret'.op = "removeApiKey" => GetApiKey(files'.key) = NullKey]_vars

C29_Witness ==
    /\ ret.op = "saveApiKey" /\ ret.key = KeyShort /\ ~ret.result
    /\ GetApiKey(files.key) = KeyB /\ lastSaved = KeyB

\* C30: getScanVisibility returns one of public, unlisted, private: public
\* when the file has no value or a value that is none of the three;
\* setScanVisibility with a value outside the three leaves the file as it
\* was, and after setScanVisibility(v) with a valid v getScanVisibility
\* returns v.
C30_VisibilityOneOfThree ==
    /\ [](/\ GetScanVisibility(files.visibility) \in Visibilities
          /\ files.visibility \in {<<>>, <<"friends">>} =>
                GetScanVisibility(files.visibility) = "public")
    /\ [][ret'.op = "setScanVisibility" =>
              IF ret'.visibility \in Visibilities
                THEN GetScanVisibility(files'.visibility) = ret'.visibility
                ELSE files'.visibility = files.visibility]_vars

C30_Witness ==
    /\ ret.op = "setScanVisibility" /\ ret.visibility = "PRIVATE"
    /\ files.visibility = <<"friends">>
    /\ GetScanVisibility(files.visibility) = "public"
====
